---------------------------- MODULE Spec2Model ----------------------------
(***************************************************************************)
(* frawk: the Cranelift code generator's register binding and refcount     *)
(* policy (src/src/codegen/clir.rs) and the runtime's adaptive field       *)
(* vector (src/src/runtime/mod.rs).                                        *)
(*                                                                         *)
(* Part 1 models View::bind_val / View::get_val / ref_val / drop_val as    *)
(* emitters of instruction sequences, and an abstract machine that runs    *)
(* the emitted instructions one at a time over a heap of reference-counted *)
(* objects.  Part 2 models LazyVec.                                        *)
(***************************************************************************)
EXTENDS Integers, Sequences, FiniteSets, TLC

(***************************************************************************)
(* Bounds of the model.                                                    *)
(***************************************************************************)
\* Register ids of the frame under study: 1..NumRegs-1 are in the frame's
\* variable map (odd ids global, even ids local), id NumRegs is not.
NumRegs == 3
\* Number of heap objects that can be freshly allocated in one behaviour.
MaxFresh == 1
\* Integer constants that const_int can materialize: 1..NumConst.
NumConst == 2
\* Number of LazyVec calls in one behaviour.
MaxOps == 3
\* Indices passed to LazyVec::insert range over 0..Slack+MaxBeyond.
MaxBeyond == 2
\* Distinct key texts (patterns, paths) looked up in a Registry: 1..NumTexts.
NumTexts == 2
\* Distinct buffers a key text can come from: 1..NumBufs.
NumBufs == 2
\* Number of Registry lookups in one behaviour.
MaxCalls == 4
\* Runtime functions: names and addresses both range over 1..NumFns.
NumFns == 2
\* Number of registrations and external calls in one behaviour.
MaxXOps == 3
\* Width in bits of the integers the lowered operations work on.
Width == 3

(***************************************************************************)
(* compile::Ty, as matched in clir.rs.                                     *)
(***************************************************************************)
MapTys == {"MapIntInt", "MapIntFloat", "MapIntStr", "MapStrInt", "MapStrFloat", "MapStrStr"}

IterTys == {"IterInt", "IterStr"}

ScalarTys == {"Int", "Float"}

HeapTys == MapTys \cup {"Str"}

Ty == {"Null"} \cup ScalarTys \cup HeapTys \cup IterTys

Ids == 1..NumRegs

BoundIds == 1..(NumRegs - 1)

Objs == 1..(NumRegs - 1 + MaxFresh)

(***************************************************************************)
(* Run-time values: a heap object (a map pointer or a string), the address *)
(* of a register's memory slot, a number, or nothing.                      *)
(***************************************************************************)
Obj(o) == [k |-> "obj", n |-> o]

Addr(a) == [k |-> "addr", n |-> a]

Num(x) == [k |-> "num", n |-> x]

None == [k |-> "none", n |-> 0]

\* Names of the IR values an emitted sequence defines or uses.
SSA == {"v", "p", "pointee", "cur", "val", "ld", "c0"}

(***************************************************************************)
(* Instructions.  use_var and def_var are the builder's SSA variable       *)
(* accesses; load, store, call and iconst are machine instructions.        *)
(***************************************************************************)
UseVar(dst, var) == [op |-> "use_var", fn |-> "", src |-> "", addr |-> "", dst |-> dst, var |-> var, imm |-> 0]

DefVar(var, src) == [op |-> "def_var", fn |-> "", src |-> src, addr |-> "", dst |-> "", var |-> var, imm |-> 0]

Load(dst, addr) == [op |-> "load", fn |-> "", src |-> "", addr |-> addr, dst |-> dst, var |-> 0, imm |-> 0]

Store(src, addr) == [op |-> "store", fn |-> "", src |-> src, addr |-> addr, dst |-> "", var |-> 0, imm |-> 0]

Call(fn, src) == [op |-> "call", fn |-> fn, src |-> src, addr |-> "", dst |-> "", var |-> 0, imm |-> 0]

IConst(dst, imm) == [op |-> "iconst", fn |-> "", src |-> "", addr |-> "", dst |-> dst, var |-> 0, imm |-> imm]

(***************************************************************************)
(* View::ref_val and View::drop_val: the call they emit for a value v of   *)
(* type t, nothing for a type that is not an array or string type.         *)
(***************************************************************************)
RefValCode(t, v) ==
    IF t \in MapTys THEN <<Call("ref_map", v)>>
    ELSE IF t = "Str" THEN <<Call("ref_str", v)>>
    ELSE <<>>

DropFn(t) ==
    CASE t = "MapIntInt" -> "drop_intint"
      [] t = "MapIntFloat" -> "drop_intfloat"
      [] t = "MapIntStr" -> "drop_intstr"
      [] t = "MapStrInt" -> "drop_strint"
      [] t = "MapStrFloat" -> "drop_strfloat"
      [] t = "MapStrStr" -> "drop_strstr"
      [] t = "Str" -> "drop_str"
      [] OTHER -> ""

DropValCode(t, v) ==
    IF t \in HeapTys THEN <<Call(DropFn(t), v)>> ELSE <<>>

DropMapFns == {DropFn(t) : t \in MapTys}


(***************************************************************************)
(* View::bind_val(r, v) for r = (id, t) in a frame whose variable map is   *)
(* f: the result and the instructions emitted, in emission order.  "v" is  *)
(* the IR value passed in.  The variable map is looked up before the type  *)
(* is matched.                                                             *)
(***************************************************************************)
\* The Int | Float arm.
ScalarBindCode(var, is_global) ==
    IF is_global
    THEN <<UseVar("p", var), Store("v", "p")>>
    ELSE <<DefVar(var, "v")>>

\* The Str arm: globals and locals alike.
StrBindCode(var) ==
    <<UseVar("p", var)>> \o DropValCode("Str", "p") \o <<Store("v", "p")>>

\* A variant of the map arm that releases the old occupant before it
\* increments the new value.
MapBindCodeReleaseFirst(t, var, is_global) ==
    IF is_global
    THEN <<UseVar("p", var), Load("pointee", "p")>>
         \o DropValCode(t, "pointee")
         \o RefValCode(t, "v")
         \o <<Store("v", "p")>>
    ELSE <<UseVar("cur", var)>>
         \o DropValCode(t, "cur")
         \o RefValCode(t, "v")
         \o <<DefVar(var, "v")>>

\* The arm of the six map types.
MapBindCode(t, var, is_global) ==
    RefValCode(t, "v") \o
    (IF is_global
     THEN <<UseVar("p", var), Load("pointee", "p")>>
          \o DropValCode(t, "pointee")
          \o <<Store("v", "p")>>
     ELSE <<UseVar("cur", var)>>
          \o DropValCode(t, "cur")
          \o <<DefVar(var, "v")>>)

BindValCode(t, f, id) ==
    IF id \notin DOMAIN f THEN [res |-> "err", code |-> <<>>, ret |-> ""]
    ELSE LET var == f[id].var
             is_global == f[id].is_global
         IN CASE t \in ScalarTys ->
                   [res |-> "ok", ret |-> "", code |-> ScalarBindCode(var, is_global)]
              [] t = "Str" ->
                   [res |-> "ok", ret |-> "", code |-> StrBindCode(var)]
              [] t \in MapTys ->
                   [res |-> "ok", ret |-> "", code |-> MapBindCode(t, var, is_global)]
              [] t = "Null" -> [res |-> "ok", code |-> <<>>, ret |-> ""]
              [] OTHER -> [res |-> "err", code |-> <<>>, ret |-> ""]

(***************************************************************************)
(* View::get_val(r): Null yields the constant 0 before any lookup; the     *)
(* other types look the register up, read the variable, and load through   *)
(* it for a global map or number.  ret names the IR value returned.        *)
(***************************************************************************)
\* A variant of get_val that takes a reference on the map it returns.
GetValBoundRef(t, var, is_global) ==
    CASE t \in MapTys \cup ScalarTys ->
           IF is_global
           THEN [res |-> "ok", ret |-> "ld",
                 code |-> <<UseVar("val", var), Load("ld", "val")>> \o RefValCode(t, "ld")]
           ELSE [res |-> "ok", ret |-> "val",
                 code |-> <<UseVar("val", var)>> \o RefValCode(t, "val")]
      [] t = "Str" ->
           [res |-> "ok", ret |-> "val", code |-> <<UseVar("val", var)>>]
      [] OTHER ->
           [res |-> "err", ret |-> "", code |-> <<UseVar("val", var)>>]

\* A variant of get_val that hands out an iterator register's variable.
GetValBoundIterOk(t, var, is_global) ==
    CASE t \in MapTys \cup ScalarTys ->
           IF is_global
           THEN [res |-> "ok", ret |-> "ld",
                 code |-> <<UseVar("val", var), Load("ld", "val")>>]
           ELSE [res |-> "ok", ret |-> "val", code |-> <<UseVar("val", var)>>]
      [] OTHER ->
           [res |-> "ok", ret |-> "val", code |-> <<UseVar("val", var)>>]

\* get_val once the register is found: use_var, then the match on the type.
GetValBound(t, var, is_global) ==
    CASE t \in MapTys \cup ScalarTys ->
           IF is_global
           THEN [res |-> "ok", ret |-> "ld",
                 code |-> <<UseVar("val", var), Load("ld", "val")>>]
           ELSE [res |-> "ok", ret |-> "val", code |-> <<UseVar("val", var)>>]
      [] t = "Str" ->
           [res |-> "ok", ret |-> "val", code |-> <<UseVar("val", var)>>]
      [] OTHER ->
           [res |-> "err", ret |-> "", code |-> <<UseVar("val", var)>>]

\* A variant of get_val that looks the register up before it matches Null.
GetValCodeLookupFirst(t, f, id) ==
    IF id \notin DOMAIN f THEN [res |-> "err", code |-> <<>>, ret |-> ""]
    ELSE IF t = "Null" THEN [res |-> "ok", code |-> <<IConst("c0", 0)>>, ret |-> "c0"]
    ELSE GetValBound(t, f[id].var, f[id].is_global)

GetValCode(t, f, id) ==
    IF t = "Null" THEN [res |-> "ok", code |-> <<IConst("c0", 0)>>, ret |-> "c0"]
    ELSE IF id \notin DOMAIN f THEN [res |-> "err", code |-> <<>>, ret |-> ""]
    ELSE GetValBound(t, f[id].var, f[id].is_global)

\* View::const_int(i): one iconst.
ConstIntCode(i) == <<IConst("c0", i)>>

(***************************************************************************)
(* The abstract machine the emitted instructions run on.  A machine state  *)
(* m has env (IR value -> run-time value), varval (the current definition  *)
(* of each cranelift Variable), mem (the memory slot of each register that *)
(* has one), rc (object -> reference count; an allocated object whose      *)
(* count is 0 has been freed) and fault (undefined behaviour was reached:  *)
(* a call on something that is no live object, such as a second release of *)
(* a freed one, or an access through something that is no address).        *)
(***************************************************************************)
Faulted(m) == [m EXCEPT !.fault = TRUE]

\* Refcount acquire on object value x.
Acquire(m, x) ==
    IF x.k = "obj" /\ m.rc[x.n] > 0
    THEN [m EXCEPT !.rc[x.n] = @ + 1]
    ELSE Faulted(m)

\* Refcount release on object value x; release to zero frees the storage.
Release(m, x) ==
    IF x.k = "obj" /\ m.rc[x.n] > 0
    THEN [m EXCEPT !.rc[x.n] = @ - 1]
    ELSE Faulted(m)

\* What the address value x points at, None when x is no address.
Pointee(m, x) == IF x.k = "addr" THEN m.mem[x.n] ELSE None

\* The runtime helpers: ref_map and drop_<map> take the map pointer,
\* ref_str and drop_str take a pointer to the string.
ExecCall(m, fn, x) ==
    CASE fn = "ref_map" -> Acquire(m, x)
      [] fn = "ref_str" -> Acquire(m, Pointee(m, x))
      [] fn = "drop_str" -> Release(m, Pointee(m, x))
      [] fn \in DropMapFns -> Release(m, x)
      [] OTHER -> Faulted(m)

ExecIns(m, i) ==
    CASE i.op = "use_var" -> [m EXCEPT !.env[i.dst] = m.varval[i.var]]
      [] i.op = "def_var" -> [m EXCEPT !.varval[i.var] = m.env[i.src]]
      [] i.op = "iconst" -> [m EXCEPT !.env[i.dst] = Num(i.imm)]
      [] i.op = "load" ->
           IF m.env[i.addr].k = "addr"
           THEN [m EXCEPT !.env[i.dst] = m.mem[m.env[i.addr].n]]
           ELSE Faulted(m)
      [] i.op = "store" ->
           IF m.env[i.addr].k = "addr"
           THEN [m EXCEPT !.mem[m.env[i.addr].n] = m.env[i.src]]
           ELSE Faulted(m)
      [] i.op = "call" -> ExecCall(m, i.fn, m.env[i.src])
      [] OTHER -> Faulted(m)

(***************************************************************************)
(* LazyVec<T> = Either<Vec<T>, IntMap<T>> (src/src/runtime/mod.rs).        *)
(* A vector is a record: dense tells the form, v is the Vec (TLA+          *)
(* sequences are 1-based: index ix is v[ix + 1]), mp is the IntMap, a      *)
(* function from its keys.  T is opaque to LazyVec; values are numbers     *)
(* with T::default() = 0.                                                  *)
(***************************************************************************)
\* The slack window of insert on the dense form.
Slack == 16

Default == 0

Indices == 0..(Slack + MaxBeyond)

\* Indices read back with get: the first two and the two ends of the far range.
Probes == {0, 1, Slack, Slack + MaxBeyond}

EmptyMap == [k \in {} |-> Default]

DenseVec(v) == [dense |-> TRUE, v |-> v, mp |-> EmptyMap]

SparseVec(mp) == [dense |-> FALSE, v |-> <<>>, mp |-> mp]

\* Option<T>
Some(t) == [some |-> TRUE, val |-> t]

NoEntry == [some |-> FALSE, val |-> Default]

\* LazyVec::clear: either form becomes the empty Vec.
LvClearKeepForm(l) == IF l.dense THEN DenseVec(<<>>) ELSE SparseVec(EmptyMap)

\* LazyVec::clear: the Vec emptied in place, or a new empty Vec in place of
\* the IntMap.
LvClear(l) == DenseVec(<<>>)

\* LazyVec::len: the Vec's length or the map's number of keys.
LvLen(l) == IF l.dense THEN Len(l.v) ELSE Cardinality(DOMAIN l.mp)

\* LazyVec::get
LvGet(l, ix) ==
    IF l.dense
    THEN IF ix < Len(l.v) THEN Some(l.v[ix + 1]) ELSE NoEntry
    ELSE IF ix \in DOMAIN l.mp THEN Some(l.mp[ix]) ELSE NoEntry

\* SharedMap::insert
MapInsert(mp, k, t) == [x \in DOMAIN mp \cup {k} |-> IF x = k THEN t ELSE mp[x]]

\* A variant of the conversion that numbers the drained entries from 1.
DrainToMapFromOne(v) == [k \in 1..Len(v) |-> v[k]]

\* v.drain(..).enumerate().map(|(ix, t)| (ix as i64, t)).collect::<IntMap<T>>()
DrainToMap(v) == [k \in 0..(Len(v) - 1) |-> v[k + 1]]

\* n copies of T::default()
Defaults(n) == [i \in 1..n |-> Default]

\* A variant of insert whose slack window is one slot wider.
LvInsertWideWindow(l, ix, t) ==
    IF l.dense
    THEN LET n == Len(l.v)
         IN IF ix < n THEN DenseVec([l.v EXCEPT ![ix + 1] = t])
            ELSE IF ix = n THEN DenseVec(Append(l.v, t))
            ELSE IF ix <= n + Slack THEN DenseVec(l.v \o Defaults(ix - n) \o <<t>>)
            ELSE SparseVec(DrainToMap(l.v))
    ELSE SparseVec(MapInsert(l.mp, ix, t))

(***************************************************************************)
(* LazyVec::insert.  On the dense form: overwrite, append, or back-fill    *)
(* with defaults inside the slack window; beyond it the loop breaks with   *)
(* the Vec drained into a map, which is assigned to *self, and the         *)
(* function ends.  On the sparse form: insert into the map.                *)
(***************************************************************************)
LvInsert(l, ix, t) ==
    IF l.dense
    THEN LET n == Len(l.v)
         IN IF ix < n THEN DenseVec([l.v EXCEPT ![ix + 1] = t])
            ELSE IF ix = n THEN DenseVec(Append(l.v, t))
            ELSE IF ix < n + Slack THEN DenseVec(l.v \o Defaults(ix - n) \o <<t>>)
            ELSE SparseVec(DrainToMap(l.v))
    ELSE SparseVec(MapInsert(l.mp, ix, t))

\* LazyVec::push
LvPush(l, t) == LvInsert(l, LvLen(l), t)

(***************************************************************************)
(* Registry<T> (src/src/runtime/mod.rs): cached is a HashMap<Rc<str>, T>,  *)
(* a function from the key texts present to the resource cached for each.  *)
(* A key handed in is a Str s = [buf, text]: the buffer it lives in and    *)
(* its characters.  A resource is a record: id tells constructions apart,  *)
(* src is the buffer whose lookup constructed it, st is its state (lines   *)
(* consumed by a reader, writes done through a writer, 0 for a pattern).   *)
(***************************************************************************)
Texts == 1..NumTexts

Bufs == 1..NumBufs

Strs == [buf : Bufs, text : Texts]

Kinds == {"regex", "write", "read"}

\* The file at path text holds this many lines.
FileLen(text) == text

\* A variant of the key that tells buffers apart.
KeyOfBuffer(s) == s.buf

\* s.clone_str() as a HashMap key: an Rc<str> hashes and compares by its
\* characters.
KeyOf(s) == s.text

NoCache == [k \in {} |-> [id |-> 0, src |-> 0, st |-> 0]]

\* The getter closures: with_regex runs f on the pattern; write_str writes
\* through the writer; get_line reads the next line, Ok(n > 0).  io tells
\* whether the underlying write or read succeeds.
Getter(kind, text, r, io) ==
    CASE kind = "regex" -> [ret |-> "ok", st |-> r.st, line |-> 0]
      [] kind = "write" ->
           IF io THEN [ret |-> "ok", st |-> r.st + 1, line |-> 0]
           ELSE [ret |-> "err", st |-> r.st, line |-> 0]
      [] OTHER ->
           IF ~io THEN [ret |-> "err", st |-> r.st, line |-> 0]
           ELSE IF r.st < FileLen(text)
           THEN [ret |-> "true", st |-> r.st + 1, line |-> r.st + 1]
           ELSE [ret |-> "false", st |-> r.st, line |-> 0]

\* A variant of get_fallible that caches the value as constructed and runs
\* the getter on a copy of it.
GetFallibleInsertFresh(kind, c, s, fresh, newOk, io) ==
    LET k == KeyOf(s)
    IN IF k \in DOMAIN c
       THEN LET g == Getter(kind, s.text, c[k], io)
            IN [cached |-> [c EXCEPT ![k].st = g.st], ret |-> g.ret,
                ctor |-> "none", id |-> c[k].id, line |-> g.line]
       ELSE IF ~newOk
       THEN [cached |-> c, ret |-> "err", ctor |-> "fail", id |-> 0, line |-> 0]
       ELSE LET val == [id |-> fresh, src |-> s.buf, st |-> 0]
                g == Getter(kind, s.text, val, io)
            IN [cached |-> [x \in DOMAIN c \cup {k} |-> IF x = k THEN val ELSE c[x]],
                ret |-> g.ret, ctor |-> "ok", id |-> fresh, line |-> g.line]

\* A variant of get_fallible that caches an entry for a key whose
\* constructor failed.
GetFallibleCacheFailure(kind, c, s, fresh, newOk, io) ==
    LET k == KeyOf(s)
    IN IF k \in DOMAIN c
       THEN LET g == Getter(kind, s.text, c[k], io)
            IN [cached |-> [c EXCEPT ![k].st = g.st], ret |-> g.ret,
                ctor |-> "none", id |-> c[k].id, line |-> g.line]
       ELSE IF ~newOk
       THEN [cached |-> [x \in DOMAIN c \cup {k} |->
                           IF x = k THEN [id |-> 0, src |-> s.buf, st |-> 0] ELSE c[x]],
             ret |-> "err", ctor |-> "fail", id |-> 0, line |-> 0]
       ELSE LET val == [id |-> fresh, src |-> s.buf, st |-> 0]
                g == Getter(kind, s.text, val, io)
            IN [cached |-> [x \in DOMAIN c \cup {k} |->
                              IF x = k THEN [val EXCEPT !.st = g.st] ELSE c[x]],
                ret |-> g.ret, ctor |-> "ok", id |-> fresh, line |-> g.line]

\* A variant of get_fallible that caches the new value only when the getter
\* succeeded on it.
GetFallibleDropFailed(kind, c, s, fresh, newOk, io) ==
    LET k == KeyOf(s)
    IN IF k \in DOMAIN c
       THEN LET g == Getter(kind, s.text, c[k], io)
            IN [cached |-> [c EXCEPT ![k].st = g.st], ret |-> g.ret,
                ctor |-> "none", id |-> c[k].id, line |-> g.line]
       ELSE IF ~newOk
       THEN [cached |-> c, ret |-> "err", ctor |-> "fail", id |-> 0, line |-> 0]
       ELSE LET val == [id |-> fresh, src |-> s.buf, st |-> 0]
                g == Getter(kind, s.text, val, io)
            IN [cached |-> IF g.ret = "err" THEN c
                           ELSE [x \in DOMAIN c \cup {k} |->
                                   IF x = k THEN [val EXCEPT !.st = g.st] ELSE c[x]],
                ret |-> g.ret, ctor |-> "ok", id |-> fresh, line |-> g.line]

\* Registry::get_fallible(s, new, getter) on cache c.  Occupied: the getter
\* runs on the cached value.  Vacant: new runs, an error from it returns at
\* once; otherwise the getter runs on the new value, the value is inserted
\* and the getter's result returned.  fresh is the identity of a value new
\* constructs; newOk tells whether new succeeds.
GetFallible(kind, c, s, fresh, newOk, io) ==
    LET k == KeyOf(s)
    IN IF k \in DOMAIN c
       THEN LET g == Getter(kind, s.text, c[k], io)
            IN [cached |-> [c EXCEPT ![k].st = g.st], ret |-> g.ret,
                ctor |-> "none", id |-> c[k].id, line |-> g.line]
       ELSE IF ~newOk
       THEN [cached |-> c, ret |-> "err", ctor |-> "fail", id |-> 0, line |-> 0]
       ELSE LET val == [id |-> fresh, src |-> s.buf, st |-> 0]
                g == Getter(kind, s.text, val, io)
            IN [cached |-> [x \in DOMAIN c \cup {k} |->
                              IF x = k THEN [val EXCEPT !.st = g.st] ELSE c[x]],
                ret |-> g.ret, ctor |-> "ok", id |-> fresh, line |-> g.line]

(***************************************************************************)
(* External functions (View::register_external_fn, call_inst,              *)
(* call_external, call_external_void).  A signature is told by its number  *)
(* of results: Sig.ret is an Option, so 0 or 1.  The module's declarations *)
(* are a sequence indexed by FuncId of [name, sig]; external_funcs is a    *)
(* function from the addresses registered to FuncIds.                      *)
(***************************************************************************)
Names == 1..NumFns

Addrs == 1..NumFns

Sigs == {0, 1}

Builds == {"debug", "release"}

NoFuncs == [a \in {} |-> 0]

\* Module::declare_function(name, Linkage::Import, sig): a new name gets
\* the next FuncId; a name already declared with the same signature gets
\* the FuncId it has; one declared with another signature is rejected.
DeclareFunction(d, name, sig) ==
    LET hit == {i \in 1..Len(d) : d[i].name = name}
    IN IF hit = {}
       THEN [ok |-> TRUE, id |-> Len(d) + 1, decls |-> Append(d, [name |-> name, sig |-> sig])]
       ELSE LET i == CHOOSE i \in hit : TRUE
            IN IF d[i].sig = sig
               THEN [ok |-> TRUE, id |-> i, decls |-> d]
               ELSE [ok |-> FALSE, id |-> 0, decls |-> d]

\* A variant of register_external_fn that enters the address in the table
\* before it looks at the module's answer.
RegisterExternalFnInsertFirst(ef, d, name, addr, sig) ==
    LET r == DeclareFunction(d, name, sig)
        tbl == [x \in DOMAIN ef \cup {addr} |-> IF x = addr THEN r.id ELSE ef[x]]
    IN IF ~r.ok
       THEN [res |-> "err", msg |-> name, rejected |-> TRUE, external_funcs |-> tbl, decls |-> d]
       ELSE [res |-> "ok", msg |-> 0, rejected |-> FALSE, external_funcs |-> tbl, decls |-> r.decls]

\* <View as Backend>::register_external_fn(name, _, addr, sig) on table ef
\* and declarations d: the module is asked to declare the function; its
\* error is returned with the name in the message; otherwise the id is
\* entered for addr.
RegisterExternalFn(ef, d, name, addr, sig) ==
    LET r == DeclareFunction(d, name, sig)
    IN IF ~r.ok
       THEN [res |-> "err", msg |-> name, rejected |-> TRUE, external_funcs |-> ef, decls |-> d]
       ELSE [res |-> "ok", msg |-> 0, rejected |-> FALSE,
             external_funcs |-> [x \in DOMAIN ef \cup {addr} |-> IF x = addr THEN r.id ELSE ef[x]],
             decls |-> r.decls]

\* The number of results of the call call_inst emits for func, -1 when
\* func is not in the table (the index panics).
InstResults(ef, d, func) == IF func \in DOMAIN ef THEN d[ef[func]].sig ELSE -1

\* View::call_external: expect() on the first result, debug_assert! that
\* there is no second.
CallExternal(ef, d, bld, func) ==
    LET n == InstResults(ef, d, func)
    IN IF n < 0 THEN "panic"
       ELSE IF n = 0 THEN "panic"
       ELSE IF n > 1 /\ bld = "debug" THEN "panic"
       ELSE "ok"

\* View::call_external_void: debug_assert! that there is no result.
CallExternalVoid(ef, d, bld, func) ==
    LET n == InstResults(ef, d, func)
    IN IF n < 0 THEN "panic"
       ELSE IF n > 0 /\ bld = "debug" THEN "panic"
       ELSE "ok"

(***************************************************************************)
(* Lowered operations (View::cmp, View::bitwise).  Integers are bit        *)
(* patterns of Width bits, read as two's-complement where an instruction   *)
(* is signed; a float is a record: nan, or the number v.                   *)
(***************************************************************************)
Words == 0..(2^Width - 1)

Signed(x) == IF x >= 2^(Width - 1) THEN x - 2^Width ELSE x

NaN == [nan |-> TRUE, v |-> 0]

Floats == {NaN} \cup {[nan |-> FALSE, v |-> k] : k \in -1..1}

CmpOps == {"EQ", "LT", "LTE", "GT", "GTE"}

BitwiseOps == {"Complement", "And", "Or", "LogicalRightShift", "ArithmeticRightShift",
               "LeftShift", "Xor"}

\* A variant of cmp that compares floats for unordered-or-equal.
CmpCodeUnordered(op, is_float) ==
    IF is_float
    THEN CASE op = "EQ" -> [ins |-> "fcmp", cc |-> "UnorderedOrEqual"]
           [] op = "LTE" -> [ins |-> "fcmp", cc |-> "LessThanOrEqual"]
           [] op = "LT" -> [ins |-> "fcmp", cc |-> "LessThan"]
           [] op = "GTE" -> [ins |-> "fcmp", cc |-> "GreaterThanOrEqual"]
           [] OTHER -> [ins |-> "fcmp", cc |-> "GreaterThan"]
    ELSE CASE op = "EQ" -> [ins |-> "icmp", cc |-> "Equal"]
           [] op = "LTE" -> [ins |-> "icmp", cc |-> "SignedLessThanOrEqual"]
           [] op = "LT" -> [ins |-> "icmp", cc |-> "SignedLessThan"]
           [] op = "GTE" -> [ins |-> "icmp", cc |-> "SignedGreaterThanOrEqual"]
           [] OTHER -> [ins |-> "icmp", cc |-> "SignedGreaterThan"]

\* View::cmp: the comparison instruction and condition code chosen.
CmpCode(op, is_float) ==
    IF is_float
    THEN CASE op = "EQ" -> [ins |-> "fcmp", cc |-> "Equal"]
           [] op = "LTE" -> [ins |-> "fcmp", cc |-> "LessThanOrEqual"]
           [] op = "LT" -> [ins |-> "fcmp", cc |-> "LessThan"]
           [] op = "GTE" -> [ins |-> "fcmp", cc |-> "GreaterThanOrEqual"]
           [] OTHER -> [ins |-> "fcmp", cc |-> "GreaterThan"]
    ELSE CASE op = "EQ" -> [ins |-> "icmp", cc |-> "Equal"]
           [] op = "LTE" -> [ins |-> "icmp", cc |-> "SignedLessThanOrEqual"]
           [] op = "LT" -> [ins |-> "icmp", cc |-> "SignedLessThan"]
           [] op = "GTE" -> [ins |-> "icmp", cc |-> "SignedGreaterThanOrEqual"]
           [] OTHER -> [ins |-> "icmp", cc |-> "SignedGreaterThan"]

\* fcmp: the ordered conditions are false when an operand is NaN, the
\* unordered one is true.
Fcmp(cc, l, r) ==
    IF l.nan \/ r.nan THEN cc = "UnorderedOrEqual"
    ELSE CASE cc \in {"Equal", "UnorderedOrEqual"} -> l.v = r.v
           [] cc = "LessThanOrEqual" -> l.v <= r.v
           [] cc = "LessThan" -> l.v < r.v
           [] cc = "GreaterThanOrEqual" -> l.v >= r.v
           [] OTHER -> l.v > r.v

\* icmp on two words.
Icmp(cc, l, r) ==
    CASE cc = "Equal" -> l = r
      [] cc = "SignedLessThanOrEqual" -> Signed(l) <= Signed(r)
      [] cc = "SignedLessThan" -> Signed(l) < Signed(r)
      [] cc = "SignedGreaterThanOrEqual" -> Signed(l) >= Signed(r)
      [] OTHER -> Signed(l) > Signed(r)

\* View::bool_to_int: bint widens a boolean to the integer 0 or 1.
BoolToInt(b) == IF b THEN 1 ELSE 0

\* The value View::cmp(op, is_float, l, r) computes when its code runs.
CmpVal(op, is_float, l, r) ==
    LET c == CmpCode(op, is_float)
    IN BoolToInt(IF c.ins = "fcmp" THEN Fcmp(c.cc, l, r) ELSE Icmp(c.cc, l, r))

\* A variant of bitwise with a sign-filling arithmetic right shift.
BitwiseCodeSigned(op) ==
    CASE op = "Complement" -> "bnot"
      [] op = "And" -> "band"
      [] op = "Or" -> "bor"
      [] op = "LogicalRightShift" -> "ushr"
      [] op = "ArithmeticRightShift" -> "sshr"
      [] op = "LeftShift" -> "ishl"
      [] OTHER -> "bxor"

\* View::bitwise: the instruction chosen.
BitwiseCode(op) ==
    CASE op = "Complement" -> "bnot"
      [] op = "And" -> "band"
      [] op = "Or" -> "bor"
      [] op = "LogicalRightShift" -> "ushr"
      [] op = "ArithmeticRightShift" -> "ushr"
      [] op = "LeftShift" -> "ishl"
      [] OTHER -> "bxor"

\* The shift instructions on a word x and an amount n below Width.
ShiftIns(ins, x, n) ==
    CASE ins = "ushr" -> x \div 2^n
      [] ins = "sshr" -> (Signed(x) \div 2^n) % 2^Width
      [] OTHER -> (x * 2^n) % 2^Width

\* The value View::bitwise(op, [x, n]) computes for the three shifts.
ShiftVal(op, x, n) == ShiftIns(BitwiseCode(op), x, n)

(***************************************************************************)
(* call_intrinsic (View::call_intrinsic, arith, floatfunc).  An Op is its  *)
(* tag, with the domain and the operator where the tag carries them.  The  *)
(* code at the call site is one direct instruction (for a comparison, the  *)
(* compare followed by bint) or one call of a runtime function; either way *)
(* one IR value is returned: the instruction's result, or the first result *)
(* of the call.  The operands are IR values, told here by the kind of      *)
(* number each holds.                                                      *)
(***************************************************************************)
ArithOps == {"Mul", "Minus", "Add", "Mod", "Neg"}

FloatFuncs == {"Cos", "Sin", "Atan", "Atan2", "Log", "Log2", "Log10", "Sqrt", "Exp"}

ArgTys == {"Int", "Float"}

Ops ==
    [tag : {"Cmp"}, is_float : BOOLEAN, op : CmpOps]
    \cup [tag : {"Arith"}, is_float : BOOLEAN, op : ArithOps]
    \cup [tag : {"Bitwise"}, is_float : {FALSE}, op : BitwiseOps]
    \cup [tag : {"Math"}, is_float : {TRUE}, op : FloatFuncs]
    \cup [tag : {"Div", "Pow", "FloatToInt", "IntToFloat"}, is_float : {FALSE}, op : {""}]
    \cup [tag : {"Intrinsic"}, is_float : {FALSE}, op : {"e"}]

\* self.builder.ins().<name>(..)
Inst(name) == [kind |-> "inst", name |-> name, vals |-> 1]

\* self.call_external(external!(<fn>), args)
ExternalCall(fn) == [kind |-> "call", name |-> fn, vals |-> 1]

NoSite == [kind |-> "none", name |-> "", vals |-> 0]

\* View::arith
ArithCode(op, is_float) ==
    IF is_float
    THEN CASE op = "Mul" -> Inst("fmul")
           [] op = "Minus" -> Inst("fsub")
           [] op = "Add" -> Inst("fadd")
           [] op = "Mod" -> ExternalCall("_frawk_fprem")
           [] OTHER -> Inst("fneg")
    ELSE CASE op = "Mul" -> Inst("imul")
           [] op = "Minus" -> Inst("isub")
           [] op = "Add" -> Inst("iadd")
           [] op = "Mod" -> Inst("srem")
           [] OTHER -> Inst("ineg")

\* View::floatfunc
FloatFuncCode(op) ==
    CASE op = "Cos" -> ExternalCall("_frawk_cos")
      [] op = "Sin" -> ExternalCall("_frawk_sin")
      [] op = "Atan" -> ExternalCall("_frawk_atan")
      [] op = "Atan2" -> ExternalCall("_frawk_atan2")
      [] op = "Log" -> ExternalCall("_frawk_log")
      [] op = "Log2" -> ExternalCall("_frawk_log2")
      [] op = "Log10" -> ExternalCall("_frawk_log10")
      [] op = "Sqrt" -> Inst("sqrt")
      [] OTHER -> ExternalCall("_frawk_exp")

\* A variant of call_intrinsic that divides two integer operands with the
\* integer division instruction.
CallIntrinsicCodeIntDiv(f, args) ==
    CASE f.tag = "Cmp" -> Inst(CmpCode(f.op, f.is_float).ins)
      [] f.tag = "Arith" -> ArithCode(f.op, f.is_float)
      [] f.tag = "Bitwise" -> Inst(BitwiseCode(f.op))
      [] f.tag = "Math" -> FloatFuncCode(f.op)
      [] f.tag = "Div" -> IF args = <<"Int", "Int">> THEN Inst("sdiv") ELSE Inst("fdiv")
      [] f.tag = "Pow" -> ExternalCall("_frawk_pow")
      [] f.tag = "FloatToInt" -> Inst("fcvt_to_sint_sat")
      [] f.tag = "IntToFloat" -> Inst("fcvt_from_sint")
      [] OTHER -> ExternalCall(f.op)

\* View::call_intrinsic(func, args): the match on the Op.
CallIntrinsicCode(f, args) ==
    CASE f.tag = "Cmp" -> Inst(CmpCode(f.op, f.is_float).ins)
      [] f.tag = "Arith" -> ArithCode(f.op, f.is_float)
      [] f.tag = "Bitwise" -> Inst(BitwiseCode(f.op))
      [] f.tag = "Math" -> FloatFuncCode(f.op)
      [] f.tag = "Div" -> Inst("fdiv")
      [] f.tag = "Pow" -> ExternalCall("_frawk_pow")
      [] f.tag = "FloatToInt" -> Inst("fcvt_to_sint_sat")
      [] f.tag = "IntToFloat" -> Inst("fcvt_from_sint")
      [] OTHER -> ExternalCall(f.op)

(***************************************************************************)
(* const_str (View::const_str).  The packed representation of a string is  *)
(* a word of twice Width bits; a half is a word of Width bits.             *)
(***************************************************************************)
StrBits == 0..(2^(2 * Width) - 1)

\* `x as i64`: the low half of the bits, read as a signed integer.
AsI64(x) == Signed(x % 2^Width)

\* iconst(types::I64, imm): the half-word whose bits are imm's.
Iconst(imm) == imm % 2^Width

\* iconcat(lo, hi): the double word with lo as its low half.
Iconcat(lo, hi) == hi * 2^Width + lo

NoStr == [code |-> <<>>, val |-> -1]

\* A variant of const_str that hands the halves to iconcat high half first.
ConstStrCodeHighFirst(bits) ==
    LET low == AsI64(bits)
        high == AsI64(bits \div 2^Width)
    IN << [ins |-> "iconst", imm |-> low],
          [ins |-> "iconst", imm |-> high],
          [ins |-> "iconcat", lo |-> 2, hi |-> 1] >>

\* View::const_str: the three instructions emitted for the bits.
ConstStrCode(bits) ==
    LET low == AsI64(bits)
        high == AsI64(bits \div 2^Width)
    IN << [ins |-> "iconst", imm |-> low],
          [ins |-> "iconst", imm |-> high],
          [ins |-> "iconcat", lo |-> 1, hi |-> 2] >>

\* The value the emitted instructions leave in the result of the last.
ConstStrVal(c) == Iconcat(Iconst(c[c[3].lo].imm), Iconst(c[c[3].hi].imm))

(***************************************************************************)
(* State of the code generator and of the machine.                         *)
(*   ty        the compile::Ty of the registers of the frame under study   *)
(*   vars      Frame.vars: register id -> VarRef, for the ids in the map   *)
(*   m         the machine state the generated code runs on                *)
(*   code, pc  the instructions emitted by the last operation and the      *)
(*             position of the machine in them                             *)
(*   res       what the last generator call returned: kind "ok" or "err",  *)
(*             and the IR value returned                                   *)
(*   held      the run-time value of the IR value last produced by get_val *)
(*             or const_int, and the register it was read from (0: none)   *)
(*   tmp       a freshly allocated object the caller still owns, or None   *)
(*   nextObj   the next object to allocate                                 *)
(*   cur       the operation in progress: its name, its register, whether  *)
(*             it binds a register to the value just read from that same   *)
(*             register, and then the object the register held if the      *)
(*             register was that object's only owner (0 otherwise)         *)
(*   lastBound the value last passed to a successful bind_val, by register *)
(***************************************************************************)
VARIABLES ty, vars, m, code, pc, res, held, tmp, nextObj, cur, lastBound

cgvars == <<ty, vars, m, code, pc, res, held, tmp, nextObj, cur, lastBound>>

(***************************************************************************)
(* State of the vector under study.                                        *)
(*   lv     the LazyVec                                                    *)
(*   lvOp   the last call: its name, index and value, and the length and   *)
(*          form of the vector when it was made                            *)
(*   nops   the number of calls made; the k-th call passes the value k     *)
(*   hist   how the vector was built since it was last empty: "seq" by     *)
(*          inserts at 0, 1, 2, .. in order (vals: the values inserted),   *)
(*          "far" by such inserts and then one insert at or beyond         *)
(*          len + Slack, "other" otherwise                                 *)
(***************************************************************************)
VARIABLES lv, lvOp, nops, hist

lvvars == <<lv, lvOp, nops, hist>>

(***************************************************************************)
(* State of the cache under study.                                         *)
(*   kind    which cache it is: the pattern cache (RegexCache), the        *)
(*           file-writer cache (FileWrite) or the line-reader cache        *)
(*           (FileRead)                                                    *)
(*   cached  Registry.cached                                               *)
(*   built   how many times the constructor has succeeded, by key text     *)
(*   got     how many lines get_line has delivered, by path text           *)
(*   rgOp    the last lookup: the key handed in, whether the constructor   *)
(*           ran ("none", "ok", "fail"), what the call returned ("err",    *)
(*           "ok", "true", "false"), the resource the getter ran on (0:    *)
(*           none) and the line delivered (0: none)                        *)
(*   ncalls  the number of lookups made                                    *)
(***************************************************************************)
VARIABLES kind, cached, built, got, rgOp, ncalls

rgvars == <<kind, cached, built, got, rgOp, ncalls>>

(***************************************************************************)
(* State of the registration of external functions.                        *)
(*   build           the build configuration: debug_assert! is compiled in *)
(*                   only in "debug"                                       *)
(*   external_funcs  Shared.external_funcs                                 *)
(*   decls           the functions declared in Shared.module               *)
(*   asks            how many times the module has been asked to declare a *)
(*                   function, by the address registered                   *)
(*   xOp             the last operation: its name and arguments, its       *)
(*                   outcome ("ok", "err", or "panic" when generation      *)
(*                   stopped), the name in the error message, whether the  *)
(*                   module rejected the declaration, whether the address  *)
(*                   was in the table before and whether the table or the  *)
(*                   declarations changed, and the number of results of    *)
(*                   the function called (-1: not registered)              *)
(*   nx              the number of operations made                         *)
(***************************************************************************)
VARIABLES build, external_funcs, decls, asks, xOp, nx

xvars == <<build, external_funcs, decls, asks, xOp, nx>>

(***************************************************************************)
(* State of the lowered operation under study.                             *)
(*   opIn   the operation and its operands                                 *)
(*   opOut  the value its code computed (-1: not run yet)                  *)
(***************************************************************************)
VARIABLES opIn, opOut

opvars == <<opIn, opOut>>

(***************************************************************************)
(* State of the call_intrinsic call under study.                           *)
(*   intr  the Op handed in and the kinds of its two operands              *)
(*   site  what was emitted for it: nothing yet, one instruction or one    *)
(*         external call, and the number of values returned                *)
(***************************************************************************)
VARIABLES intr, site

ivars == <<intr, site>>

(***************************************************************************)
(* State of the string literal under study.                                *)
(*   strBits  the bits of the literal, s.clone_str().into_bits()           *)
(*   strOut   the instructions const_str emitted for it and the value they *)
(*            compute (-1: not emitted yet)                                *)
(***************************************************************************)
VARIABLES strBits, strOut

svars == <<strBits, strOut>>

vars_all == <<cgvars, lvvars, rgvars, xvars, opvars, ivars, svars>>

\* The parts of the state an operation of one component leaves alone.
notcg == <<lvvars, rgvars, xvars, opvars, ivars, svars>>

notlv == <<cgvars, rgvars, xvars, opvars, ivars, svars>>

notrg == <<cgvars, lvvars, xvars, opvars, ivars, svars>>

notx == <<cgvars, lvvars, rgvars, opvars, ivars, svars>>

notop == <<cgvars, lvvars, rgvars, xvars, ivars, svars>>

noti == <<cgvars, lvvars, rgvars, xvars, opvars, svars>>

nots == <<cgvars, lvvars, rgvars, xvars, opvars, ivars>>

\* A register's slot is memory behind a pointer when the register is global;
\* string registers are kept behind a pointer whether global or local.
PointerBacked(t, is_global) == is_global \/ t = "Str"

\* The value register id holds in machine state mm.
RegVal(mm, id) ==
    IF id \notin DOMAIN vars THEN None
    ELSE IF PointerBacked(ty, vars[id].is_global) THEN mm.mem[id]
    ELSE mm.varval[id]

\* The value a register holds at function entry.
InitVal(t, id) == IF t \in HeapTys THEN Obj(id) ELSE Num(0)

EmptyEnv == [s \in SSA |-> None]

\* The machine at function entry: every register of the frame holds its
\* initial value, through a slot if it is kept behind a pointer.
InitMachine ==
    [env |-> EmptyEnv,
     varval |-> [i \in Ids |->
                   IF i \notin BoundIds THEN None
                   ELSE IF PointerBacked(ty, vars[i].is_global) THEN Addr(i)
                   ELSE InitVal(ty, i)],
     mem |-> [i \in Ids |->
                IF i \in BoundIds /\ PointerBacked(ty, vars[i].is_global)
                THEN InitVal(ty, i) ELSE None],
     rc |-> [o \in Objs |-> IF ty \in HeapTys /\ o \in BoundIds THEN 1 ELSE 0],
     fault |-> FALSE]

Init ==
    /\ ty \in Ty
    /\ vars = [i \in BoundIds |-> [var |-> i, is_global |-> i % 2 = 1]]
    /\ m = InitMachine
    /\ code = <<>>
    /\ pc = 1
    /\ res = [kind |-> "ok", ret |-> ""]
    /\ held = [val |-> None, from |-> 0]
    /\ tmp = None
    /\ nextObj = NumRegs
    /\ cur = [op |-> "init", id |-> 0, self |-> FALSE, old |-> 0]
    /\ lastBound = [i \in Ids |-> None]
    /\ lv = DenseVec(<<>>)
    /\ lvOp = [op |-> "new", ix |-> 0, t |-> Default, n |-> 0, dense |-> TRUE]
    /\ nops = 0
    /\ hist = [phase |-> "seq", vals |-> <<>>]
    /\ kind = "regex"
    /\ cached = NoCache
    /\ built = [t \in Texts |-> 0]
    /\ got = [t \in Texts |-> 0]
    /\ rgOp = [text |-> 0, buf |-> 0, ctor |-> "none", ret |-> "ok", id |-> 0, line |-> 0]
    /\ ncalls = 0
    /\ build = "debug"
    /\ external_funcs = NoFuncs
    /\ decls = <<>>
    /\ asks = [a \in Addrs |-> 0]
    /\ xOp = [op |-> "new", name |-> 0, addr |-> 0, sig |-> 0, res |-> "ok", msg |-> 0,
              rejected |-> FALSE, again |-> FALSE, changed |-> FALSE, nret |-> -1]
    /\ nx = 0
    /\ opIn = [op |-> "EQ", is_float |-> FALSE, l |-> 0, r |-> 0, fl |-> NaN, fr |-> NaN]
    /\ opOut = -1
    /\ intr = [op |-> [tag |-> "Div", is_float |-> FALSE, op |-> ""], args |-> <<"Int", "Int">>]
    /\ site = NoSite
    /\ strBits = 0
    /\ strOut = NoStr

\* The same with the frame's type fixed, for the field vector.
VecInit ==
    /\ ty = "Null"
    /\ vars = [i \in BoundIds |-> [var |-> i, is_global |-> i % 2 = 1]]
    /\ m = InitMachine
    /\ code = <<>>
    /\ pc = 1
    /\ res = [kind |-> "ok", ret |-> ""]
    /\ held = [val |-> None, from |-> 0]
    /\ tmp = None
    /\ nextObj = NumRegs
    /\ cur = [op |-> "init", id |-> 0, self |-> FALSE, old |-> 0]
    /\ lastBound = [i \in Ids |-> None]
    /\ lv = DenseVec(<<>>)
    /\ lvOp = [op |-> "new", ix |-> 0, t |-> Default, n |-> 0, dense |-> TRUE]
    /\ nops = 0
    /\ hist = [phase |-> "seq", vals |-> <<>>]
    /\ kind = "regex"
    /\ cached = NoCache
    /\ built = [t \in Texts |-> 0]
    /\ got = [t \in Texts |-> 0]
    /\ rgOp = [text |-> 0, buf |-> 0, ctor |-> "none", ret |-> "ok", id |-> 0, line |-> 0]
    /\ ncalls = 0
    /\ build = "debug"
    /\ external_funcs = NoFuncs
    /\ decls = <<>>
    /\ asks = [a \in Addrs |-> 0]
    /\ xOp = [op |-> "new", name |-> 0, addr |-> 0, sig |-> 0, res |-> "ok", msg |-> 0,
              rejected |-> FALSE, again |-> FALSE, changed |-> FALSE, nret |-> -1]
    /\ nx = 0
    /\ opIn = [op |-> "EQ", is_float |-> FALSE, l |-> 0, r |-> 0, fl |-> NaN, fr |-> NaN]
    /\ opOut = -1
    /\ intr = [op |-> [tag |-> "Div", is_float |-> FALSE, op |-> ""], args |-> <<"Int", "Int">>]
    /\ site = NoSite
    /\ strBits = 0
    /\ strOut = NoStr

\* The same for a cache, of any of the three kinds.
RegInit ==
    /\ ty = "Null"
    /\ vars = [i \in BoundIds |-> [var |-> i, is_global |-> i % 2 = 1]]
    /\ m = InitMachine
    /\ code = <<>>
    /\ pc = 1
    /\ res = [kind |-> "ok", ret |-> ""]
    /\ held = [val |-> None, from |-> 0]
    /\ tmp = None
    /\ nextObj = NumRegs
    /\ cur = [op |-> "init", id |-> 0, self |-> FALSE, old |-> 0]
    /\ lastBound = [i \in Ids |-> None]
    /\ lv = DenseVec(<<>>)
    /\ lvOp = [op |-> "new", ix |-> 0, t |-> Default, n |-> 0, dense |-> TRUE]
    /\ nops = 0
    /\ hist = [phase |-> "seq", vals |-> <<>>]
    /\ kind \in Kinds
    /\ cached = NoCache
    /\ built = [t \in Texts |-> 0]
    /\ got = [t \in Texts |-> 0]
    /\ rgOp = [text |-> 0, buf |-> 0, ctor |-> "none", ret |-> "ok", id |-> 0, line |-> 0]
    /\ ncalls = 0
    /\ build = "debug"
    /\ external_funcs = NoFuncs
    /\ decls = <<>>
    /\ asks = [a \in Addrs |-> 0]
    /\ xOp = [op |-> "new", name |-> 0, addr |-> 0, sig |-> 0, res |-> "ok", msg |-> 0,
              rejected |-> FALSE, again |-> FALSE, changed |-> FALSE, nret |-> -1]
    /\ nx = 0
    /\ opIn = [op |-> "EQ", is_float |-> FALSE, l |-> 0, r |-> 0, fl |-> NaN, fr |-> NaN]
    /\ opOut = -1
    /\ intr = [op |-> [tag |-> "Div", is_float |-> FALSE, op |-> ""], args |-> <<"Int", "Int">>]
    /\ site = NoSite
    /\ strBits = 0
    /\ strOut = NoStr

\* The same for the registration of external functions, in either build.
ExtInit ==
    /\ ty = "Null"
    /\ vars = [i \in BoundIds |-> [var |-> i, is_global |-> i % 2 = 1]]
    /\ m = InitMachine
    /\ code = <<>>
    /\ pc = 1
    /\ res = [kind |-> "ok", ret |-> ""]
    /\ held = [val |-> None, from |-> 0]
    /\ tmp = None
    /\ nextObj = NumRegs
    /\ cur = [op |-> "init", id |-> 0, self |-> FALSE, old |-> 0]
    /\ lastBound = [i \in Ids |-> None]
    /\ lv = DenseVec(<<>>)
    /\ lvOp = [op |-> "new", ix |-> 0, t |-> Default, n |-> 0, dense |-> TRUE]
    /\ nops = 0
    /\ hist = [phase |-> "seq", vals |-> <<>>]
    /\ kind = "regex"
    /\ cached = NoCache
    /\ built = [t \in Texts |-> 0]
    /\ got = [t \in Texts |-> 0]
    /\ rgOp = [text |-> 0, buf |-> 0, ctor |-> "none", ret |-> "ok", id |-> 0, line |-> 0]
    /\ ncalls = 0
    /\ build \in Builds
    /\ external_funcs = NoFuncs
    /\ decls = <<>>
    /\ asks = [a \in Addrs |-> 0]
    /\ xOp = [op |-> "new", name |-> 0, addr |-> 0, sig |-> 0, res |-> "ok", msg |-> 0,
              rejected |-> FALSE, again |-> FALSE, changed |-> FALSE, nret |-> -1]
    /\ nx = 0
    /\ opIn = [op |-> "EQ", is_float |-> FALSE, l |-> 0, r |-> 0, fl |-> NaN, fr |-> NaN]
    /\ opOut = -1
    /\ intr = [op |-> [tag |-> "Div", is_float |-> FALSE, op |-> ""], args |-> <<"Int", "Int">>]
    /\ site = NoSite
    /\ strBits = 0
    /\ strOut = NoStr

\* The same for a lowered operation, with its operator and operands drawn.
OpInit ==
    /\ ty = "Null"
    /\ vars = [i \in BoundIds |-> [var |-> i, is_global |-> i % 2 = 1]]
    /\ m = InitMachine
    /\ code = <<>>
    /\ pc = 1
    /\ res = [kind |-> "ok", ret |-> ""]
    /\ held = [val |-> None, from |-> 0]
    /\ tmp = None
    /\ nextObj = NumRegs
    /\ cur = [op |-> "init", id |-> 0, self |-> FALSE, old |-> 0]
    /\ lastBound = [i \in Ids |-> None]
    /\ lv = DenseVec(<<>>)
    /\ lvOp = [op |-> "new", ix |-> 0, t |-> Default, n |-> 0, dense |-> TRUE]
    /\ nops = 0
    /\ hist = [phase |-> "seq", vals |-> <<>>]
    /\ kind = "regex"
    /\ cached = NoCache
    /\ built = [t \in Texts |-> 0]
    /\ got = [t \in Texts |-> 0]
    /\ rgOp = [text |-> 0, buf |-> 0, ctor |-> "none", ret |-> "ok", id |-> 0, line |-> 0]
    /\ ncalls = 0
    /\ build = "debug"
    /\ external_funcs = NoFuncs
    /\ decls = <<>>
    /\ asks = [a \in Addrs |-> 0]
    /\ xOp = [op |-> "new", name |-> 0, addr |-> 0, sig |-> 0, res |-> "ok", msg |-> 0,
              rejected |-> FALSE, again |-> FALSE, changed |-> FALSE, nret |-> -1]
    /\ nx = 0
    /\ opIn \in [op : CmpOps, is_float : {FALSE}, l : Words, r : Words, fl : {NaN}, fr : {NaN}]
                \cup [op : CmpOps, is_float : {TRUE}, l : {0}, r : {0}, fl : Floats, fr : Floats]
                \cup [op : BitwiseOps \ {"Complement", "And", "Or", "Xor"}, is_float : {FALSE},
                      l : Words, r : 0..(Width - 1), fl : {NaN}, fr : {NaN}]
    /\ opOut = -1
    /\ intr = [op |-> [tag |-> "Div", is_float |-> FALSE, op |-> ""], args |-> <<"Int", "Int">>]
    /\ site = NoSite
    /\ strBits = 0
    /\ strOut = NoStr

\* The same for a call of call_intrinsic, with its Op and operand kinds drawn.
IntrInit ==
    /\ ty = "Null"
    /\ vars = [i \in BoundIds |-> [var |-> i, is_global |-> i % 2 = 1]]
    /\ m = InitMachine
    /\ code = <<>>
    /\ pc = 1
    /\ res = [kind |-> "ok", ret |-> ""]
    /\ held = [val |-> None, from |-> 0]
    /\ tmp = None
    /\ nextObj = NumRegs
    /\ cur = [op |-> "init", id |-> 0, self |-> FALSE, old |-> 0]
    /\ lastBound = [i \in Ids |-> None]
    /\ lv = DenseVec(<<>>)
    /\ lvOp = [op |-> "new", ix |-> 0, t |-> Default, n |-> 0, dense |-> TRUE]
    /\ nops = 0
    /\ hist = [phase |-> "seq", vals |-> <<>>]
    /\ kind = "regex"
    /\ cached = NoCache
    /\ built = [t \in Texts |-> 0]
    /\ got = [t \in Texts |-> 0]
    /\ rgOp = [text |-> 0, buf |-> 0, ctor |-> "none", ret |-> "ok", id |-> 0, line |-> 0]
    /\ ncalls = 0
    /\ build = "debug"
    /\ external_funcs = NoFuncs
    /\ decls = <<>>
    /\ asks = [a \in Addrs |-> 0]
    /\ xOp = [op |-> "new", name |-> 0, addr |-> 0, sig |-> 0, res |-> "ok", msg |-> 0,
              rejected |-> FALSE, again |-> FALSE, changed |-> FALSE, nret |-> -1]
    /\ nx = 0
    /\ opIn = [op |-> "EQ", is_float |-> FALSE, l |-> 0, r |-> 0, fl |-> NaN, fr |-> NaN]
    /\ opOut = -1
    /\ intr \in [op : Ops, args : ArgTys \X ArgTys]
    /\ site = NoSite
    /\ strBits = 0
    /\ strOut = NoStr

\* The same for a string literal, with its bits drawn.
StrInit ==
    /\ ty = "Null"
    /\ vars = [i \in BoundIds |-> [var |-> i, is_global |-> i % 2 = 1]]
    /\ m = InitMachine
    /\ code = <<>>
    /\ pc = 1
    /\ res = [kind |-> "ok", ret |-> ""]
    /\ held = [val |-> None, from |-> 0]
    /\ tmp = None
    /\ nextObj = NumRegs
    /\ cur = [op |-> "init", id |-> 0, self |-> FALSE, old |-> 0]
    /\ lastBound = [i \in Ids |-> None]
    /\ lv = DenseVec(<<>>)
    /\ lvOp = [op |-> "new", ix |-> 0, t |-> Default, n |-> 0, dense |-> TRUE]
    /\ nops = 0
    /\ hist = [phase |-> "seq", vals |-> <<>>]
    /\ kind = "regex"
    /\ cached = NoCache
    /\ built = [t \in Texts |-> 0]
    /\ got = [t \in Texts |-> 0]
    /\ rgOp = [text |-> 0, buf |-> 0, ctor |-> "none", ret |-> "ok", id |-> 0, line |-> 0]
    /\ ncalls = 0
    /\ build = "debug"
    /\ external_funcs = NoFuncs
    /\ decls = <<>>
    /\ asks = [a \in Addrs |-> 0]
    /\ xOp = [op |-> "new", name |-> 0, addr |-> 0, sig |-> 0, res |-> "ok", msg |-> 0,
              rejected |-> FALSE, again |-> FALSE, changed |-> FALSE, nret |-> -1]
    /\ nx = 0
    /\ opIn = [op |-> "EQ", is_float |-> FALSE, l |-> 0, r |-> 0, fl |-> NaN, fr |-> NaN]
    /\ opOut = -1
    /\ intr = [op |-> [tag |-> "Div", is_float |-> FALSE, op |-> ""], args |-> <<"Int", "Int">>]
    /\ site = NoSite
    /\ strBits \in StrBits
    /\ strOut = NoStr

\* The registers that hold object o in machine state mm.
Holders(mm, o) == {i \in DOMAIN vars : RegVal(mm, i) = Obj(o)}

\* Register id holds a live object that nothing else owns.
SoleOwner(id) ==
    LET x == RegVal(m, id)
    IN /\ x.k = "obj"
       /\ m.rc[x.n] = 1
       /\ Holders(m, x.n) = {id}
       /\ tmp # x

(***************************************************************************)
(* Operations of the code generator and steps of the machine.              *)
(***************************************************************************)
\* The generator emits the next operation once the machine has run the last.
Idle == pc > Len(code) /\ ~m.fault

\* The runtime allocates a fresh object; the caller owns it (count 1).
Alloc ==
    /\ Idle /\ ty \in HeapTys /\ tmp = None /\ nextObj \in Objs
    /\ m' = [m EXCEPT !.rc[nextObj] = 1, !.env = EmptyEnv]
    /\ tmp' = Obj(nextObj)
    /\ nextObj' = nextObj + 1
    /\ code' = <<>> /\ pc' = 1
    /\ res' = [kind |-> "ok", ret |-> ""]
    /\ cur' = [op |-> "alloc", id |-> 0, self |-> FALSE, old |-> 0]
    /\ UNCHANGED <<ty, vars, held, lastBound, notcg>>

\* The caller gives up the fresh object it owns.
DropTemp ==
    /\ Idle /\ tmp # None
    /\ m' = Release([m EXCEPT !.env = EmptyEnv], tmp)
    /\ tmp' = None
    /\ code' = <<>> /\ pc' = 1
    /\ res' = [kind |-> "ok", ret |-> ""]
    /\ cur' = [op |-> "drop_temp", id |-> 0, self |-> FALSE, old |-> 0]
    /\ UNCHANGED <<ty, vars, held, nextObj, lastBound, notcg>>

\* const_int(i) for a frame of numbers, nulls or iterators.
ConstInt(i) ==
    /\ Idle /\ ty \notin HeapTys
    /\ code' = ConstIntCode(i) /\ pc' = 1
    /\ res' = [kind |-> "ok", ret |-> "c0"]
    /\ m' = [m EXCEPT !.env = EmptyEnv]
    /\ cur' = [op |-> "const_int", id |-> 0, self |-> FALSE, old |-> 0]
    /\ UNCHANGED <<ty, vars, held, tmp, nextObj, lastBound, notcg>>

\* bind_val((id, ty), v), v being the value held or the fresh object owned.
\* The caller passes a live value.
BindVal(id, src) ==
    LET v == IF src = "held" THEN held.val ELSE tmp
        g == BindValCode(ty, vars, id)
        self == src = "held" /\ held.from = id
    IN /\ Idle
       /\ v # None
       /\ v.k = "obj" => m.rc[v.n] > 0
       /\ code' = g.code
       /\ pc' = IF g.res = "ok" THEN 1 ELSE Len(g.code) + 1
       /\ res' = [kind |-> g.res, ret |-> g.ret]
       /\ m' = [m EXCEPT !.env = [EmptyEnv EXCEPT !["v"] = v]]
       /\ cur' = [op |-> "bind_val", id |-> id, self |-> self,
                  old |-> IF self /\ SoleOwner(id) THEN RegVal(m, id).n ELSE 0]
       /\ held' = IF held.from = id THEN [held EXCEPT !.from = 0] ELSE held
       /\ lastBound' = IF g.res = "ok" THEN [lastBound EXCEPT ![id] = v] ELSE lastBound
       /\ UNCHANGED <<ty, vars, tmp, nextObj, notcg>>

\* get_val((id, ty)).
GetVal(id) ==
    LET g == GetValCode(ty, vars, id)
    IN /\ Idle
       /\ code' = g.code
       /\ pc' = IF g.res = "ok" THEN 1 ELSE Len(g.code) + 1
       /\ res' = [kind |-> g.res, ret |-> g.ret]
       /\ m' = [m EXCEPT !.env = EmptyEnv]
       /\ cur' = [op |-> "get_val", id |-> id, self |-> FALSE, old |-> 0]
       /\ UNCHANGED <<ty, vars, held, tmp, nextObj, lastBound, notcg>>

\* The machine runs the next emitted instruction; the value a get_val or
\* const_int returned is held once its last instruction has run.
Step ==
    /\ ~m.fault /\ pc <= Len(code)
    /\ LET n == ExecIns(m, code[pc])
       IN /\ m' = IF pc = Len(code) THEN [n EXCEPT !.env = EmptyEnv] ELSE n
          /\ held' = IF pc = Len(code) /\ cur.op \in {"get_val", "const_int"} /\ ~n.fault
                     THEN [val |-> n.env[res.ret], from |-> cur.id]
                     ELSE held
    /\ pc' = pc + 1
    /\ UNCHANGED <<ty, vars, code, res, tmp, nextObj, cur, lastBound, notcg>>

CgNext ==
    \/ Alloc
    \/ DropTemp
    \/ \E i \in 1..NumConst : ConstInt(i)
    \/ \E id \in Ids, src \in {"held", "tmp"} : BindVal(id, src)
    \/ \E id \in Ids : GetVal(id)
    \/ Step

(***************************************************************************)
(* Calls on the field vector.                                              *)
(***************************************************************************)
Insert(ix) ==
    LET t == nops + 1
    IN /\ nops < MaxOps
       /\ lv' = LvInsert(lv, ix, t)
       /\ lvOp' = [op |-> "insert", ix |-> ix, t |-> t, n |-> LvLen(lv), dense |-> lv.dense]
       /\ nops' = nops + 1
       /\ hist' = IF hist.phase = "seq" /\ ix = Len(hist.vals)
                  THEN [phase |-> "seq", vals |-> Append(hist.vals, t)]
                  ELSE IF hist.phase = "seq" /\ ix >= Len(hist.vals) + Slack
                  THEN [phase |-> "far", vals |-> hist.vals]
                  ELSE [phase |-> "other", vals |-> <<>>]
       /\ UNCHANGED notlv

Push ==
    LET t == nops + 1
    IN /\ nops < MaxOps
       /\ lv' = LvPush(lv, t)
       /\ lvOp' = [op |-> "push", ix |-> LvLen(lv), t |-> t, n |-> LvLen(lv), dense |-> lv.dense]
       /\ nops' = nops + 1
       /\ hist' = [phase |-> "other", vals |-> <<>>]
       /\ UNCHANGED notlv

Clear ==
    /\ nops < MaxOps
    /\ lv' = LvClear(lv)
    /\ lvOp' = [op |-> "clear", ix |-> 0, t |-> Default, n |-> LvLen(lv), dense |-> lv.dense]
    /\ nops' = nops + 1
    /\ hist' = [phase |-> "seq", vals |-> <<>>]
    /\ UNCHANGED notlv

\* get and len take &self: they return a value and leave the vector alone.
Get(ix) ==
    /\ nops < MaxOps
    /\ lvOp' = [op |-> "get", ix |-> ix, t |-> LvGet(lv, ix).val, n |-> LvLen(lv), dense |-> lv.dense]
    /\ nops' = nops + 1
    /\ UNCHANGED <<lv, hist, notlv>>

LenCall ==
    /\ nops < MaxOps
    /\ lvOp' = [op |-> "len", ix |-> 0, t |-> LvLen(lv), n |-> LvLen(lv), dense |-> lv.dense]
    /\ nops' = nops + 1
    /\ UNCHANGED <<lv, hist, notlv>>

LvNext ==
    \/ \E ix \in Indices : Insert(ix)
    \/ Push
    \/ Clear
    \/ \E ix \in Probes : Get(ix)
    \/ LenCall

(***************************************************************************)
(* Lookups in the cache.  Each goes through Registry::get_fallible with    *)
(* its own constructor and getter; whether the constructor succeeds (the   *)
(* pattern compiles, the file opens) and whether the write or read         *)
(* succeeds is the environment's choice.                                   *)
(***************************************************************************)
\* The identity of the next value a constructor makes.
FreshId == 1 + Cardinality({t \in Texts : built[t] > 0})
              + Cardinality({t \in Texts : built[t] > 1})

Lookup(s, newOk, io) ==
    LET g == GetFallible(kind, cached, s, FreshId, newOk, io)
    IN /\ ncalls < MaxCalls
       \* newOk and io are read only where new and the getter's write or
       \* read run; elsewhere one value stands for both.
       /\ g.ctor = "none" => newOk
       /\ g.ctor = "fail" => io
       /\ cached' = g.cached
       /\ built' = IF g.ctor = "ok" THEN [built EXCEPT ![s.text] = @ + 1] ELSE built
       /\ got' = IF g.ret = "true" THEN [got EXCEPT ![s.text] = @ + 1] ELSE got
       /\ rgOp' = [text |-> s.text, buf |-> s.buf, ctor |-> g.ctor, ret |-> g.ret,
                   id |-> g.id, line |-> g.line]
       /\ ncalls' = ncalls + 1
       /\ UNCHANGED <<kind, notrg>>

\* RegexCache::with_regex(pat, f).
WithRegex(s, newOk) == kind = "regex" /\ Lookup(s, newOk, TRUE)

\* FileWrite::write_str(path, s, append).
WriteStr(s, newOk, io) == kind = "write" /\ Lookup(s, newOk, io)

\* FileRead::get_line(path, into).
GetLine(s, newOk, io) == kind = "read" /\ Lookup(s, newOk, io)

RgNext ==
    \/ \E s \in Strs, newOk \in BOOLEAN : WithRegex(s, newOk)
    \/ \E s \in Strs, newOk \in BOOLEAN, io \in BOOLEAN : WriteStr(s, newOk, io)
    \/ \E s \in Strs, newOk \in BOOLEAN, io \in BOOLEAN : GetLine(s, newOk, io)

(***************************************************************************)
(* Registration of and calls to external functions.  A panic stops         *)
(* generation: nothing follows it.                                         *)
(***************************************************************************)
Register(name, addr, sig) ==
    LET g == RegisterExternalFn(external_funcs, decls, name, addr, sig)
    IN /\ nx < MaxXOps /\ xOp.res # "panic"
       /\ external_funcs' = g.external_funcs
       /\ decls' = g.decls
       /\ asks' = [asks EXCEPT ![addr] = @ + 1]
       /\ xOp' = [op |-> "register", name |-> name, addr |-> addr, sig |-> sig,
                  res |-> g.res, msg |-> g.msg, rejected |-> g.rejected,
                  again |-> addr \in DOMAIN external_funcs,
                  changed |-> g.external_funcs # external_funcs \/ g.decls # decls,
                  nret |-> -1]
       /\ nx' = nx + 1
       /\ UNCHANGED <<build, notx>>

\* call_intrinsic(Intrinsic(e), args): Ok(self.call_external(e, args)).
CallIntrinsicExt(func) ==
    /\ nx < MaxXOps /\ xOp.res # "panic"
    /\ xOp' = [op |-> "call_external", name |-> 0, addr |-> func, sig |-> 0,
               res |-> CallExternal(external_funcs, decls, build, func), msg |-> 0,
               rejected |-> FALSE, again |-> FALSE, changed |-> FALSE,
               nret |-> InstResults(external_funcs, decls, func)]
    /\ nx' = nx + 1
    /\ UNCHANGED <<build, external_funcs, decls, asks, notx>>

\* call_void(func, args): Ok(self.call_external_void(func, args)).
CallVoid(func) ==
    /\ nx < MaxXOps /\ xOp.res # "panic"
    /\ xOp' = [op |-> "call_void", name |-> 0, addr |-> func, sig |-> 0,
               res |-> CallExternalVoid(external_funcs, decls, build, func), msg |-> 0,
               rejected |-> FALSE, again |-> FALSE, changed |-> FALSE,
               nret |-> InstResults(external_funcs, decls, func)]
    /\ nx' = nx + 1
    /\ UNCHANGED <<build, external_funcs, decls, asks, notx>>

XNext ==
    \/ \E name \in Names, addr \in Addrs, sig \in Sigs : Register(name, addr, sig)
    \/ \E func \in Addrs : CallIntrinsicExt(func)
    \/ \E func \in Addrs : CallVoid(func)

(***************************************************************************)
(* mov(ty, dst, src) on the frame under study: unimplemented!() panics     *)
(* before anything is emitted.  cur.id is dst and cur.old is src.          *)
(***************************************************************************)
Mov(dst, src) ==
    /\ Idle /\ res.kind # "panic"
    /\ code' = <<>> /\ pc' = 1
    /\ res' = [kind |-> "panic", ret |-> ""]
    /\ cur' = [op |-> "mov", id |-> dst, self |-> dst = src, old |-> src]
    /\ UNCHANGED <<ty, vars, m, held, tmp, nextObj, lastBound, notcg>>

MovNext == \E dst \in Ids, src \in Ids : Mov(dst, src)

(***************************************************************************)
(* Running a lowered comparison or shift on the operands drawn.            *)
(***************************************************************************)
Cmp ==
    /\ opOut = -1 /\ opIn.op \in CmpOps
    /\ opOut' = IF opIn.is_float
                THEN CmpVal(opIn.op, TRUE, opIn.fl, opIn.fr)
                ELSE CmpVal(opIn.op, FALSE, opIn.l, opIn.r)
    /\ UNCHANGED <<opIn, notop>>

Bitwise ==
    /\ opOut = -1 /\ opIn.op \in BitwiseOps
    /\ opOut' = ShiftVal(opIn.op, opIn.l, opIn.r)
    /\ UNCHANGED <<opIn, notop>>

OpNext ==
    \/ Cmp
    \/ Bitwise

(***************************************************************************)
(* call_intrinsic on the Op drawn; const_str on the bits drawn.            *)
(***************************************************************************)
CallIntrinsic ==
    /\ site = NoSite
    /\ site' = CallIntrinsicCode(intr.op, intr.args)
    /\ UNCHANGED <<intr, noti>>

IntrNext == CallIntrinsic

ConstStr ==
    /\ strOut = NoStr
    /\ strOut' = [code |-> ConstStrCode(strBits), val |-> ConstStrVal(ConstStrCode(strBits))]
    /\ UNCHANGED <<strBits, nots>>

StrNext == ConstStr

(***************************************************************************)
(* Specifications.                                                         *)
(***************************************************************************)
\* The code generator and the machine its code runs on.
Spec == Init /\ [][CgNext]_vars_all

\* The field vector, beside a generator that emits nothing.
VecSpec == VecInit /\ [][LvNext]_vars_all

\* One cache and the lookups made in it.
RegSpec == RegInit /\ [][RgNext]_vars_all

\* The table of external functions, in a debug or a release build.
ExtSpec == ExtInit /\ [][XNext]_vars_all

\* mov on a frame of any type.
MovSpec == Init /\ [][MovNext]_vars_all

\* One lowered comparison or shift.
OpSpec == OpInit /\ [][OpNext]_vars_all

\* One call of call_intrinsic.
IntrSpec == IntrInit /\ [][IntrNext]_vars_all

\* One string literal.
StrSpec == StrInit /\ [][StrNext]_vars_all

(***************************************************************************)
(* Vocabulary of the properties.                                           *)
(***************************************************************************)
\* The temporaries that own object o: the fresh object the caller holds.
Temps(o) == IF tmp = Obj(o) THEN 1 ELSE 0

\* Positions in instruction sequence c of the instructions with opcode op.
At(c, op) == {i \in 1..Len(c) : c[i].op = op}

\* Positions in c of the calls to fn.
CallsTo(c, fn) == {i \in 1..Len(c) : c[i].op = "call" /\ c[i].fn = fn}

\* The instruction that puts "v" into register var: a store through the
\* slot pointer or a redefinition of the variable.
PutsV(i, var) ==
    \/ i.op = "store" /\ i.src = "v"
    \/ i.op = "def_var" /\ i.src = "v" /\ i.var = var

\* An operation's emitted code has run to its end.
Done == pc > Len(code)

\* The last operation was a successful bind_val / get_val.
BoundOk == cur.op = "bind_val" /\ res.kind = "ok"

GotOk == cur.op = "get_val" /\ res.kind = "ok"

(***************************************************************************)
(* C1.  Refcount conservation: whenever the code emitted for an operation  *)
(* has run to its end, every object's reference count equals the number of *)
(* registers holding it plus the temporaries holding it, for registers of  *)
(* type Str and of every map type; so no object is freed while a register  *)
(* holds it and none stays alive that nothing holds.                       *)
(***************************************************************************)
RefcountConservation ==
    (ty \in HeapTys /\ Done) =>
        /\ ~m.fault
        /\ \A o \in Objs : m.rc[o] = Cardinality(Holders(m, o)) + Temps(o)

\* The same for the six map types alone.
MapRefcountConservation ==
    (ty \in MapTys /\ Done) =>
        /\ ~m.fault
        /\ \A o \in Objs : m.rc[o] = Cardinality(Holders(m, o)) + Temps(o)

(***************************************************************************)
(* C2.  Self-assignment is safe: while and after the code of               *)
(* bind_val(r, get_val(r)) runs, for r of type Str or a map type whose     *)
(* value had reference count 1 with r its only owner, that value's count   *)
(* never reaches 0, and at the end r holds the same value with count 1.    *)
(***************************************************************************)
SelfAssignSafe ==
    (cur.op = "bind_val" /\ cur.self /\ cur.old # 0 /\ ty \in HeapTys) =>
        /\ ~m.fault
        /\ m.rc[cur.old] >= 1
        /\ Done => (RegVal(m, cur.id) = Obj(cur.old) /\ m.rc[cur.old] = 1)

\* The same for the six map types alone.
MapSelfAssignSafe ==
    (cur.op = "bind_val" /\ cur.self /\ cur.old # 0 /\ ty \in MapTys) =>
        /\ ~m.fault
        /\ m.rc[cur.old] >= 1
        /\ Done => (RegVal(m, cur.id) = Obj(cur.old) /\ m.rc[cur.old] = 1)

(***************************************************************************)
(* C3.  For every map type, global or local, the code of bind_val(r, v)    *)
(* has exactly one increment, of v, then exactly one release, then exactly *)
(* one store (global) or redefinition (local) of v, in that order; and the *)
(* value released is the register's old occupant: for a global the value   *)
(* loaded through the register's slot pointer, for a local the variable's  *)
(* current value, never the slot pointer itself.                           *)
(***************************************************************************)
MapBindOrder ==
    (BoundOk /\ ty \in MapTys) =>
        LET var == vars[cur.id].var
            refs == CallsTo(code, "ref_map")
            drops == CallsTo(code, DropFn(ty))
            puts == {i \in 1..Len(code) : PutsV(code[i], var)}
            reads == {i \in At(code, "use_var") : code[i].var = var}
        IN /\ Cardinality(refs) = 1 /\ Cardinality(drops) = 1 /\ Cardinality(puts) = 1
           /\ At(code, "call") = refs \cup drops
           /\ At(code, "store") \cup At(code, "def_var") = puts
           /\ \A i \in refs : code[i].src = "v"
           /\ \A i \in refs, j \in drops, k \in puts : i < j /\ j < k
           /\ \A k \in puts : code[k].op = IF vars[cur.id].is_global THEN "store" ELSE "def_var"
           /\ \A j \in drops :
                 IF vars[cur.id].is_global
                 THEN \E a \in reads, b \in At(code, "load") :
                         /\ a < b /\ b < j
                         /\ code[b].addr = code[a].dst
                         /\ code[j].src = code[b].dst
                 ELSE \E a \in reads : a < j /\ code[j].src = code[a].dst

MapBindOrderWitness ==
    /\ BoundOk /\ ty = "MapStrInt" /\ Done /\ ~m.fault
    /\ cur.id = 2
    /\ RegVal(m, 1) = RegVal(m, 2)
    /\ m.rc[RegVal(m, 2).n] = 2

(***************************************************************************)
(* C4.  For a Str register, global or local, the code of bind_val(r, v)    *)
(* reads the slot pointer, releases the old string once, increments v once *)
(* and stores v through the pointer.                                       *)
(***************************************************************************)
StrBindIncrements ==
    (BoundOk /\ ty = "Str") =>
        /\ Cardinality(CallsTo(code, "drop_str")) = 1
        /\ Cardinality(CallsTo(code, "ref_str")) = 1
        /\ Cardinality({i \in 1..Len(code) : PutsV(code[i], vars[cur.id].var)}) = 1

(***************************************************************************)
(* C5.  Read after write: for Int, Float, Str and the map types, global or *)
(* local, a get_val(r) that follows a bind_val(r, v) with no other bind to *)
(* r in between returns v; it loads through the pointer exactly when r is  *)
(* global.                                                                 *)
(***************************************************************************)
ReadAfterWrite ==
    (GotOk /\ Done /\ ~m.fault /\ ty \in ScalarTys \cup HeapTys
       /\ lastBound[cur.id] # None) =>
        /\ held.val = lastBound[cur.id]
        /\ (At(code, "load") # {}) <=> vars[cur.id].is_global

\* The same without Str.
ReadAfterWriteNoStr ==
    (GotOk /\ Done /\ ~m.fault /\ ty \in ScalarTys \cup MapTys
       /\ lastBound[cur.id] # None) =>
        /\ held.val = lastBound[cur.id]
        /\ (At(code, "load") # {}) <=> vars[cur.id].is_global

(***************************************************************************)
(* C6.  get_val changes no reference count and no slot: for every type and *)
(* register, the code it emits holds no call and no store, and neither     *)
(* emitting it nor running any of its instructions changes a reference     *)
(* count, a memory slot or a variable's definition.                        *)
(***************************************************************************)
GetValPure ==
    [][cur'.op = "get_val" =>
          /\ At(code', "call") = {} /\ At(code', "store") = {}
          /\ At(code', "def_var") = {}
          /\ m'.rc = m.rc /\ m'.mem = m.mem /\ m'.varval = m.varval
          /\ ~m'.fault]_vars_all

GetValPureWitness ==
    /\ GotOk /\ Done /\ ty = "MapIntStr"
    /\ cur.id = 1 /\ vars[1].is_global
    /\ held.val = Obj(NumRegs) /\ m.rc[NumRegs] = 2

(***************************************************************************)
(* C7.  Binding errors: bind_val and get_val on a register that is not     *)
(* Null-typed and not in the frame's variable map, and on any IterInt or   *)
(* IterStr register, return an error, emit no load, store or call, run no  *)
(* code, and leave the variable map, the slots and every reference count   *)
(* as they were.                                                           *)
(***************************************************************************)
ErrCase(id) == (ty # "Null" /\ id \notin DOMAIN vars) \/ ty \in IterTys

BindingErrors ==
    [][(cur'.op \in {"bind_val", "get_val"} /\ ErrCase(cur'.id)) =>
          /\ res'.kind = "err"
          /\ At(code', "load") = {} /\ At(code', "store") = {} /\ At(code', "call") = {}
          /\ pc' > Len(code')
          /\ vars' = vars
          /\ m'.rc = m.rc /\ m'.mem = m.mem /\ m'.varval = m.varval]_vars_all

BindingErrorsWitness ==
    /\ cur.op = "get_val" /\ ty = "IterStr" /\ cur.id \in DOMAIN vars
    /\ res.kind = "err" /\ Len(code) = 1 /\ held.val = Num(1)

(***************************************************************************)
(* C8.  Null registers.  As claimed: get_val and bind_val on a Null        *)
(* register always succeed, get_val emitting only the constant 0 and       *)
(* bind_val emitting nothing, whether or not the register is in the        *)
(* variable map.                                                           *)
(***************************************************************************)
NullOpsAlwaysSucceed ==
    (ty = "Null" /\ cur.op \in {"bind_val", "get_val"}) =>
        /\ res.kind = "ok"
        /\ cur.op = "get_val" => code = <<IConst("c0", 0)>>
        /\ cur.op = "bind_val" => code = <<>>

(***************************************************************************)
(* C8, amended.  A get_val call on a Null register always succeeds and     *)
(* emits only the constant 0, in the map or not; a bind_val call on a Null *)
(* register emits nothing and changes no slot, and succeeds exactly when   *)
(* the register is in the variable map (otherwise it returns the           *)
(* unbound-reference error).                                               *)
(***************************************************************************)
NullOps ==
    [][(ty = "Null" /\ cur'.op \in {"bind_val", "get_val"} /\ pc' = 1) =>
          /\ cur'.op = "get_val" =>
                /\ res'.kind = "ok" /\ res'.ret = "c0"
                /\ code' = <<IConst("c0", 0)>>
          /\ cur'.op = "bind_val" =>
                /\ code' = <<>>
                /\ res'.kind = "ok" <=> cur'.id \in DOMAIN vars
          /\ vars' = vars
          /\ m'.rc = m.rc /\ m'.mem = m.mem /\ m'.varval = m.varval]_vars_all

NullOpsWitness ==
    /\ ty = "Null" /\ cur.op = "bind_val" /\ cur.id \notin DOMAIN vars
    /\ res.kind = "err" /\ code = <<>> /\ held.val = Num(0)

(***************************************************************************)
(* C9.  Conversion preserves contents: a vector built from empty by        *)
(* inserts at 0, 1, .., n-1 in order is dense, has length n and holds the  *)
(* i-th inserted value at index i; after one more insert at an index at or *)
(* beyond n + 16 it is sparse and still holds the i-th inserted value at   *)
(* every index i < n.                                                      *)
(***************************************************************************)
ConversionPreserves ==
    LET n == Len(hist.vals)
    IN /\ hist.phase = "seq" =>
            /\ lv.dense
            /\ LvLen(lv) = n
            /\ \A i \in 0..(n - 1) : LvGet(lv, i) = Some(hist.vals[i + 1])
       /\ hist.phase = "far" =>
            /\ ~lv.dense
            /\ \A i \in 0..(n - 1) : LvGet(lv, i) = Some(hist.vals[i + 1])

ConversionPreservesWitness ==
    /\ hist.phase = "far" /\ Len(hist.vals) = 2
    /\ lvOp.op = "insert" /\ lvOp.ix = 2 + 16
    /\ ~lv.dense /\ LvGet(lv, 1) = Some(2)

(***************************************************************************)
(* C10.  Inserts on a dense vector of length n: at n the value is          *)
(* appended; at n < ix < n + 16 the vector stays dense with length ix + 1, *)
(* entries below n unchanged, entries n..ix-1 the default and entry ix the *)
(* value; at ix < n only entry ix changes; and the vector leaves the dense *)
(* form exactly when ix >= n + 16.                                         *)
(***************************************************************************)
SlackWindow ==
    [][(lvOp'.op = "insert" /\ lv.dense) =>
          LET n == Len(lv.v)
              ix == lvOp'.ix
              t == lvOp'.t
          IN /\ ix = n => (lv'.dense /\ lv'.v = Append(lv.v, t))
             /\ (n < ix /\ ix < n + 16) =>
                   /\ lv'.dense /\ LvLen(lv') = ix + 1
                   /\ \A i \in 0..(n - 1) : LvGet(lv', i) = LvGet(lv, i)
                   /\ \A i \in n..(ix - 1) : LvGet(lv', i) = Some(Default)
                   /\ LvGet(lv', ix) = Some(t)
             /\ ix < n =>
                   /\ lv'.dense /\ LvLen(lv') = n
                   /\ \A i \in 0..(n - 1) :
                         LvGet(lv', i) = IF i = ix THEN Some(t) ELSE LvGet(lv, i)
             /\ lv'.dense <=> ix < n + 16]_vars_all

SlackWindowWitness ==
    /\ lvOp.op = "insert" /\ lvOp.dense /\ lvOp.n = 1 /\ lvOp.ix = 1 + 15
    /\ lv.dense /\ LvLen(lv) = 17
    /\ LvGet(lv, 0) = Some(1) /\ LvGet(lv, 15) = Some(Default) /\ LvGet(lv, 16) = Some(2)

(***************************************************************************)
(* C11.  Transitions of the representation are one-directional: the vector *)
(* leaves the dense form only in insert or push; get and len change        *)
(* neither the form nor the contents; a sparse vector stays sparse under   *)
(* insert, push, get and len; and clear from either form leaves the dense  *)
(* form with length 0.                                                     *)
(***************************************************************************)
OneDirectional ==
    [][/\ (lv.dense /\ ~lv'.dense) => lvOp'.op \in {"insert", "push"}
       /\ lvOp'.op \in {"get", "len"} => lv' = lv
       /\ (~lv.dense /\ lvOp'.op \in {"insert", "push", "get", "len"}) => ~lv'.dense
       /\ lvOp'.op = "clear" => (lv'.dense /\ LvLen(lv') = 0)]_vars_all

OneDirectionalWitness ==
    /\ lvOp.op = "clear" /\ ~lvOp.dense /\ lvOp.n = 2
    /\ lv.dense /\ LvLen(lv) = 0

(***************************************************************************)
(* C12.  Cache identity and construct-once, for each of the three caches:  *)
(* a lookup whose key text already has an entry runs on that entry's       *)
(* resource and runs no constructor, whatever buffer the key comes from;   *)
(* the constructor runs only for a text with no entry, so it succeeds at   *)
(* most once per text; and no lookup removes or replaces an entry.         *)
(***************************************************************************)
CacheIdentity ==
    [][ncalls' # ncalls =>
          LET k == rgOp'.text
          IN /\ k \in DOMAIN cached =>
                   (rgOp'.ctor = "none" /\ rgOp'.id = cached[k].id)
             /\ rgOp'.ctor # "none" => k \notin DOMAIN cached
             /\ rgOp'.ctor = "ok" => (k \in DOMAIN cached' /\ cached'[k].id = rgOp'.id)
             /\ \A t \in Texts : built'[t] <= 1
             /\ \A t \in DOMAIN cached :
                   t \in DOMAIN cached' /\ cached'[t].id = cached[t].id]_vars_all

CacheIdentityWitness ==
    /\ rgOp.ctor = "none" /\ rgOp.text \in DOMAIN cached
    /\ rgOp.buf # cached[rgOp.text].src
    /\ rgOp.id = cached[rgOp.text].id
    /\ built[rgOp.text] = 1 /\ ncalls = MaxCalls

(***************************************************************************)
(* C13.  Line readers resume: a get_line call on a path that returns       *)
(* without error returns true exactly when fewer lines than the file holds *)
(* have been delivered for that path so far, and then delivers the next    *)
(* line, the (i+1)-th after i delivered; once all lines are delivered it   *)
(* returns false.  Lookups of other paths in between change nothing.       *)
(***************************************************************************)
ReadersResume ==
    [][(kind = "read" /\ ncalls' # ncalls /\ rgOp'.ret # "err") =>
          LET p == rgOp'.text
          IN /\ rgOp'.ret = "true" <=> got[p] < FileLen(p)
             /\ rgOp'.ret = "true" => (rgOp'.line = got[p] + 1 /\ got'[p] = got[p] + 1)
             /\ rgOp'.ret = "false" => got'[p] = got[p]
             /\ \A q \in Texts \ {p} : got'[q] = got[q]]_vars_all

ReadersResumeWitness ==
    /\ kind = "read" /\ rgOp.text = 2 /\ rgOp.ret = "false"
    /\ got[2] = FileLen(2) /\ got[1] = 1

(***************************************************************************)
(* C14.  A failed construction leaves the cache untouched: when the        *)
(* constructor fails the lookup returns an error, adds no entry for the    *)
(* key and changes no entry; the constructor runs on every lookup of a key *)
(* that has no entry (so again after a failure) and on none of a key that  *)
(* has one.                                                                *)
(***************************************************************************)
FailureLeavesCache ==
    [][ncalls' # ncalls =>
          /\ rgOp'.ctor = "fail" =>
                /\ rgOp'.ret = "err"
                /\ cached' = cached
                /\ rgOp'.text \notin DOMAIN cached'
          /\ rgOp'.ctor = "none" <=> rgOp'.text \in DOMAIN cached]_vars_all

FailureLeavesCacheWitness ==
    /\ rgOp.ctor = "fail" /\ rgOp.ret = "err"
    /\ rgOp.text \notin DOMAIN cached
    /\ \E t \in DOMAIN cached : cached[t].st = 2

(***************************************************************************)
(* C15.  Registration is memoized and idempotent: the module is asked to   *)
(* declare a function for any one address at most once, and registering an *)
(* address that is already in the table leaves the table and the module's  *)
(* declarations as they were.                                              *)
(***************************************************************************)
RegistrationMemoized ==
    /\ \A a \in Addrs : asks[a] <= 1
    /\ (xOp.op = "register" /\ xOp.again) => ~xOp.changed

(***************************************************************************)
(* C16.  Declaration errors: when the module rejects the declaration,      *)
(* register_external_fn returns an error whose message names the function  *)
(* and leaves the address table and the declarations as they were, so      *)
(* every address registered before is still in the table with its handle;  *)
(* it returns an error in no other case.                                   *)
(***************************************************************************)
DeclarationErrors ==
    [][(nx' # nx /\ xOp'.op = "register") =>
          /\ xOp'.rejected <=> xOp'.res = "err"
          /\ xOp'.rejected =>
                /\ xOp'.msg = xOp'.name
                /\ external_funcs' = external_funcs
                /\ decls' = decls
                /\ \A a \in DOMAIN external_funcs :
                      a \in DOMAIN external_funcs' /\ external_funcs'[a] = external_funcs[a]]_vars_all

DeclarationErrorsWitness ==
    /\ xOp.op = "register" /\ xOp.rejected /\ xOp.res = "err"
    /\ xOp.addr \notin DOMAIN external_funcs
    /\ external_funcs # NoFuncs /\ Len(decls) = 1

(***************************************************************************)
(* C17.  Call-shape mismatches are unconditional faults: a value-returning *)
(* external call of a registered function that yields no result or more    *)
(* than one, and a void external call of a registered function that yields *)
(* a result, stop generation in every build; none returns Ok.              *)
(***************************************************************************)
CallShapeFaults ==
    /\ (xOp.op = "call_external" /\ xOp.nret >= 0 /\ xOp.nret # 1) => xOp.res = "panic"
    /\ (xOp.op = "call_void" /\ xOp.nret > 0) => xOp.res = "panic"

(***************************************************************************)
(* C18.  mov(ty, dst, src) completes, and for registers of the frame of    *)
(* type Int, Float, Str or a map type the destination then holds the       *)
(* source's value; for Str and the map types every object's count equals   *)
(* the number of registers holding it, the value moved having gained the   *)
(* destination as an owner and the old occupant having lost it.            *)
(***************************************************************************)
MovTransfers ==
    (cur.op = "mov" /\ ty \in ScalarTys \cup HeapTys
       /\ cur.id \in DOMAIN vars /\ cur.old \in DOMAIN vars) =>
        /\ res.kind = "ok"
        /\ RegVal(m, cur.id) = RegVal(m, cur.old)
        /\ ty \in HeapTys =>
              \A o \in Objs : m.rc[o] = Cardinality(Holders(m, o)) + Temps(o)

(***************************************************************************)
(* C19.  Comparison results: for EQ, LT, LTE, GT and GTE on floats and on  *)
(* signed integers the lowered comparison yields 0 or 1, and 1 exactly     *)
(* when the comparison is true (in signed order for integers); on floats   *)
(* it yields 0 whenever an operand is NaN, EQ of two NaNs included.        *)
(***************************************************************************)
Rel(op, a, b) ==
    CASE op = "EQ" -> a = b
      [] op = "LT" -> a < b
      [] op = "LTE" -> a <= b
      [] op = "GT" -> a > b
      [] OTHER -> a >= b

CmpResults ==
    (opOut # -1 /\ opIn.op \in CmpOps) =>
        /\ opOut \in {0, 1}
        /\ opOut = 1 <=>
              IF opIn.is_float
              THEN ~opIn.fl.nan /\ ~opIn.fr.nan /\ Rel(opIn.op, opIn.fl.v, opIn.fr.v)
              ELSE Rel(opIn.op, Signed(opIn.l), Signed(opIn.r))
        /\ (opIn.is_float /\ (opIn.fl.nan \/ opIn.fr.nan)) => opOut = 0

CmpResultsWitness ==
    /\ opIn.op = "EQ" /\ opIn.is_float /\ opIn.fl = NaN /\ opIn.fr = NaN
    /\ opOut = 0

(***************************************************************************)
(* C20.  Both right shifts are the unsigned shift: for every word x and    *)
(* amount n below the width, ArithmeticRightShift and LogicalRightShift    *)
(* both yield the bit pattern of x divided by 2^n with zeros shifted in;   *)
(* so for negative x and n >= 1 the result is non-negative.                *)
(***************************************************************************)
ShiftsAgree ==
    (opOut # -1 /\ opIn.op \in {"LogicalRightShift", "ArithmeticRightShift"}) =>
        /\ opOut = opIn.l \div 2^opIn.r
        /\ ShiftVal("ArithmeticRightShift", opIn.l, opIn.r)
              = ShiftVal("LogicalRightShift", opIn.l, opIn.r)
        /\ (Signed(opIn.l) < 0 /\ opIn.r >= 1) => Signed(opOut) >= 0

ShiftsAgreeWitness ==
    /\ opIn.op = "ArithmeticRightShift"
    /\ Signed(opIn.l) = -1 /\ opIn.r = 1
    /\ opOut = 2^(Width - 1) - 1

(***************************************************************************)
(* C21.  What call_intrinsic emits is fixed by the Op alone, whatever the  *)
(* operands, and one value is returned.  Sin, Cos, Atan, Atan2, Log, Log2, *)
(* Log10, Exp, Pow and the floating Mod are calls of runtime functions;    *)
(* Sqrt, the integer Mod (srem), Add, Minus, Mul and Neg in both domains,  *)
(* every bitwise operator, every comparison and both coercions are direct  *)
(* instructions; Div is the instruction fdiv.                              *)
(***************************************************************************)
IntrinsicDispatch ==
    site # NoSite =>
        LET f == intr.op
            external == \/ f.tag = "Math" /\ f.op # "Sqrt"
                        \/ f.tag = "Pow"
                        \/ f.tag = "Arith" /\ f.op = "Mod" /\ f.is_float
            direct == \/ f.tag = "Math" /\ f.op = "Sqrt"
                      \/ f.tag = "Arith" /\ ~(f.op = "Mod" /\ f.is_float)
                      \/ f.tag \in {"Bitwise", "Cmp", "FloatToInt", "IntToFloat", "Div"}
        IN /\ site.vals = 1
           /\ \A a \in ArgTys \X ArgTys : CallIntrinsicCode(f, a) = site
           /\ external => site.kind = "call"
           /\ direct => site.kind = "inst"
           /\ (f.tag = "Arith" /\ f.op = "Mod" /\ ~f.is_float) => site.name = "srem"
           /\ f.tag = "Div" => site.name = "fdiv"

IntrinsicDispatchWitness ==
    /\ intr.op.tag = "Div" /\ intr.args = <<"Int", "Int">>
    /\ site = Inst("fdiv")

(***************************************************************************)
(* C22.  The packed string literal round trip: const_str emits the low     *)
(* half of the bits, then the high half, and concatenates them low half    *)
(* first; the value so built equals the bits, also when the low half has   *)
(* its top bit set.                                                        *)
(***************************************************************************)
ConstStrRoundTrip ==
    strOut # NoStr =>
        LET c == strOut.code
        IN /\ Len(c) = 3
           /\ c[1].ins = "iconst" /\ Iconst(c[1].imm) = strBits % 2^Width
           /\ c[2].ins = "iconst" /\ Iconst(c[2].imm) = strBits \div 2^Width
           /\ c[3] = [ins |-> "iconcat", lo |-> 1, hi |-> 2]
           /\ strOut.val = strBits

\* A literal whose low half is all ones (-1 as an i64) and whose high half
\* is zero.
ConstStrRoundTripWitness ==
    /\ strOut # NoStr
    /\ strBits = 2^Width - 1
    /\ strOut.code[1].imm = -1 /\ strOut.code[2].imm = 0
    /\ strOut.val = strBits

(***************************************************************************)
(* C23.  Insert then get: right after insert(ix, t), on either form and    *)
(* for every index, get(ix) returns t; so too after the insert that turns  *)
(* the dense form into the sparse one.                                     *)
(***************************************************************************)
InsertThenGet ==
    lvOp.op = "insert" => LvGet(lv, lvOp.ix) = Some(lvOp.t)

(***************************************************************************)
(* C24.  push destroys no entry: a push stores its value at an index that  *)
(* held no entry, makes len() one greater, and leaves get(i) as it was for *)
(* every index that held an entry.                                         *)
(***************************************************************************)
PushKeepsEntries ==
    [][(nops' # nops /\ lvOp'.op = "push") =>
          /\ ~LvGet(lv, lvOp'.ix).some
          /\ LvGet(lv', lvOp'.ix) = Some(lvOp'.t)
          /\ LvLen(lv') = LvLen(lv) + 1
          /\ \A i \in Indices : LvGet(lv, i).some => LvGet(lv', i) = LvGet(lv, i)]_vars_all

(***************************************************************************)
(* C25.  A resource whose first operation fails is still cached: when a    *)
(* lookup finds no entry, the constructor succeeds and the operation on    *)
(* the new resource fails, the error is returned and the resource is in    *)
(* the cache under its key afterwards; a lookup of a key that has an entry *)
(* runs the operation on that entry and not the constructor; and every     *)
(* lookup that has a resource, cached or new, applies the operation to it  *)
(* once: the resource advances by one write or one line when the           *)
(* operation succeeds and not at all when it fails.                        *)
(***************************************************************************)
FirstFailureCached ==
    [][ncalls' # ncalls =>
          LET k == rgOp'.text
              before == IF k \in DOMAIN cached THEN cached[k].st ELSE 0
              step == IF (kind = "write" /\ rgOp'.ret = "ok") \/ rgOp'.ret = "true"
                      THEN 1 ELSE 0
          IN /\ (rgOp'.ctor = "ok" /\ rgOp'.ret = "err") =>
                   /\ k \notin DOMAIN cached
                   /\ k \in DOMAIN cached'
                   /\ cached'[k].id = rgOp'.id
                   /\ \A q \in DOMAIN cached : cached'[q] = cached[q]
             /\ k \in DOMAIN cached =>
                   /\ rgOp'.ctor = "none"
                   /\ built' = built
                   /\ rgOp'.id = cached[k].id
             /\ rgOp'.ctor # "fail" =>
                   /\ rgOp'.id # 0
                   /\ k \in DOMAIN cached'
                   /\ cached'[k].st = before + step]_vars_all

\* A writer opened once whose first write failed, found again by a later
\* write that failed too.
FirstFailureCachedWitness ==
    /\ kind = "write" /\ rgOp.ctor = "none" /\ rgOp.ret = "err"
    /\ rgOp.text \in DOMAIN cached
    /\ cached[rgOp.text].st = 0 /\ built[rgOp.text] = 1

=============================================================================
